---------------------------- MODULE Spec2Model ----------------------------
(***************************************************************************)
(* A model of the pixel tooltip of src/js/index.js: the page script that   *)
(* builds one Tooltip per trigger and binds the start/move/end listeners   *)
(* with their 40ms timers, and the Tooltip class (grid layout, position    *)
(* calculation, toggle, effect dispatch, the timeline and its callbacks).  *)
(*                                                                         *)
(* Strings the code takes apart (attribute values given to parseInt, the   *)
(* effect name that is capitalised into a method name) are sequences of    *)
(* one-character strings.  A value that may be undefined/null/NaN is a     *)
(* sequence of length 0 (absent) or 1 (present).                           *)
(***************************************************************************)
EXTENDS Integers, Sequences, FiniteSets, TLC

VARIABLES
    triggers,     \* the .trigger elements: <<[tooltip, effect]>> (their data-* attributes)
    elAttr,       \* the target elements of the page: id -> [rows, cols] (data-rows, data-cols)
    win,          \* window: [innerWidth, innerHeight, scrollLeft, scrollTop]
    offset,       \* id -> [width, height]: offsetWidth/offsetHeight of a target element
    dom,          \* id -> the element's style and classes
    bgCells,      \* id -> the cells that are children of the element's .tooltip__bg
    cellOpacity,  \* cell -> its rendered opacity
    tooltips,     \* the tooltips array built so far: null (<<>>) or <<instance>>
    tls,          \* instance index -> the timelines it created, oldest first
    timers,       \* the pending setTimeout timers
    showTimeout,  \* trigger index -> the listener closure's showTimeout
    hideTimeout,  \* trigger index -> the listener closure's hideTimeout
    nEvents,      \* number of start/end events dispatched (also the last timer id)
    out,          \* what the last handler did: diagnostics, errors, timelines, toggles
    lastEv,       \* the last event: [type, trigger, x, y]
    scen          \* history of the scenario "start, then end, nothing else"

vars == <<triggers, elAttr, win, offset, dom, bgCells, cellOpacity, tooltips, tls,
          timers, showTimeout, hideTimeout, nEvents, out, lastEv, scen>>

config == <<triggers, elAttr, win, offset>>
timerVars == <<timers, showTimeout, hideTimeout, nEvents>>

-----------------------------------------------------------------------------
(* Bounds of the model *)

\* coordinates and sizes of the position check range over 0..MaxDim
MaxDim == 2
\* toggle() is called directly while an instance has made fewer timelines
MaxTimelines == 3
\* start and end events dispatched in one run
MaxEvents == 4
\* the clock advances by Tick ms (or less, up to the next timer that is due)
Tick == 10

(* Program constants *)

\* rows/cols when the attribute is absent, unparsable or 0
DefaultGrid == 4
\* the delay of the show and of the hide timer
Delay == 40
\* the z-index of an open tooltip
ZOpen == 99999
\* the z-index of a closing tooltip
ZClosed == 0

-----------------------------------------------------------------------------
(* Optional values *)

None == <<>>
Some(x) == <<x>>
Max(a, b) == IF a >= b THEN a ELSE b
Min(a, b) == IF a <= b THEN a ELSE b

-----------------------------------------------------------------------------
(* parseInt(s, 10) and `|| 4` *)

Digits == {"0", "1", "2", "3", "4", "5", "6", "7", "8", "9"}
DigitVal(c) ==
    CASE c = "0" -> 0 [] c = "1" -> 1 [] c = "2" -> 2 [] c = "3" -> 3 [] c = "4" -> 4
      [] c = "5" -> 5 [] c = "6" -> 6 [] c = "7" -> 7 [] c = "8" -> 8 [] c = "9" -> 9

RECURSIVE SkipSpace(_)
SkipSpace(s) == IF s # <<>> /\ Head(s) = " " THEN SkipSpace(Tail(s)) ELSE s

\* the longest prefix of s made of digits
RECURSIVE DigitPrefix(_)
DigitPrefix(s) ==
    IF s # <<>> /\ Head(s) \in Digits THEN <<Head(s)>> \o DigitPrefix(Tail(s)) ELSE <<>>

RECURSIVE DecimalValue(_, _)
DecimalValue(ds, acc) ==
    IF ds = <<>> THEN acc ELSE DecimalValue(Tail(ds), 10 * acc + DigitVal(Head(ds)))

\* parseInt(attr, 10): attr is None (dataset value undefined) or Some(characters).
\* None (NaN) when no digit follows the optional blanks and sign.
ParseInt(attr) ==
    IF attr = None THEN None
    ELSE LET s == SkipSpace(attr[1])
             neg == s # <<>> /\ Head(s) = "-"
             body == IF s # <<>> /\ Head(s) \in {"-", "+"} THEN Tail(s) ELSE s
             ds == DigitPrefix(body)
         IN IF ds = <<>> THEN None
            ELSE Some(IF neg THEN 0 - DecimalValue(ds, 0) ELSE DecimalValue(ds, 0))

\* parseInt(...) || 4 : NaN and 0 are falsy
OrDefault(n) == IF n = None \/ n = Some(0) THEN DefaultGrid ELSE n[1]

-----------------------------------------------------------------------------
(* calculateTooltipPosition *)

\* a variant that moves an overflowing tooltip to the viewport's edge, not past the pointer
calculateTooltipPositionAtEdge(event, w, size) ==
    LET left0 == IF event.x + size.width > w.innerWidth
                 THEN w.innerWidth - size.width + w.scrollLeft
                 ELSE event.x + w.scrollLeft
        top0 == IF event.y + size.height > w.innerHeight
                THEN w.innerHeight - size.height + w.scrollTop
                ELSE event.y + w.scrollTop
    IN [left |-> IF left0 < w.scrollLeft THEN w.scrollLeft ELSE left0,
        top |-> IF top0 < w.scrollTop THEN w.scrollTop ELSE top0]

\* event: [x, y] (clientX, clientY); w: the window; size: [width, height] of the tooltip
calculateTooltipPosition(event, w, size) ==
    LET left0 == IF event.x + size.width > w.innerWidth
                 THEN event.x - size.width + w.scrollLeft
                 ELSE event.x + w.scrollLeft
        top0 == IF event.y + size.height > w.innerHeight
                THEN event.y - size.height + w.scrollTop
                ELSE event.y + w.scrollTop
    IN [left |-> IF left0 < w.scrollLeft THEN w.scrollLeft ELSE left0,
        top |-> IF top0 < w.scrollTop THEN w.scrollTop ELSE top0]

-----------------------------------------------------------------------------
(* Effect names and the method lookup of #animateCells *)

Lower == <<"a", "b", "c", "d", "e", "f", "g", "h", "i", "j", "k", "l", "m",
           "n", "o", "p", "q", "r", "s", "t", "u", "v", "w", "x", "y", "z">>
UpperCase == <<"A", "B", "C", "D", "E", "F", "G", "H", "I", "J", "K", "L", "M",
               "N", "O", "P", "Q", "R", "S", "T", "U", "V", "W", "X", "Y", "Z">>

\* c.toUpperCase() of one character
toUpperCase(c) ==
    IF \E k \in 1..26 : Lower[k] = c
    THEN UpperCase[CHOOSE k \in 1..26 : Lower[k] = c]
    ELSE c

\* `animate${effectType.charAt(0).toUpperCase() + effectType.slice(1)}`
methodName(effectType) ==
    <<"a", "n", "i", "m", "a", "t", "e">>
        \o (IF effectType = <<>> THEN <<>> ELSE <<toUpperCase(Head(effectType))>>)
        \o (IF effectType = <<>> THEN <<>> ELSE Tail(effectType))

\* the name "effect<d>" a trigger's data-effect attribute may carry
EffectName(d) == <<"e", "f", "f", "e", "c", "t", d>>
EffectDigits == {"1", "2", "3", "4", "5", "6"}

\* the methods animateEffect1 .. animateEffect6 of the class
AnimateEffect(d) == <<"a", "n", "i", "m", "a", "t", "e", "E", "f", "f", "e", "c", "t", d>>
EffectMethods == {AnimateEffect(d) : d \in EffectDigits}
\* the one other member whose name starts with "animate"
AnimateTooltipContent ==
    <<"a", "n", "i", "m", "a", "t", "e", "T", "o", "o", "l", "t", "i", "p",
      "C", "o", "n", "t", "e", "n", "t">>

\* typeof this[methodName] === 'function'
IsMethod(m) == m \in EffectMethods \cup {AnimateTooltipContent}

-----------------------------------------------------------------------------
(* The Tooltip class *)

Null == <<>>
Ready == Len(tooltips) = Len(triggers)
Instances == {i \in 1..Len(tooltips) : tooltips[i] # Null}
Inst(i) == tooltips[i][1]

\* what a handler reports; every handler starts from this
NoOut == [inst |-> 0, toggles |-> 0, warns |-> 0, threw |-> FALSE, newTl |-> FALSE,
          killed |-> None, changed |-> FALSE]

\* the style and classes of a target element before the script runs
FreshElement ==
    [positioned |-> FALSE, left |-> 0, top |-> 0, zIndex |-> None, show |-> FALSE,
     ttRows |-> None, ttCols |-> None, filter |-> FALSE,
     titleGlitch |-> FALSE, descGlitch |-> FALSE, contentOpacity |-> "css"]

\* the number of '<div></div>' the two nested loops of #layout append
RECURSIVE layoutCount(_, _, _)
layoutCount(row, rows, cols) ==
    IF row < rows
    THEN (IF 0 < cols THEN cols ELSE 0) + layoutCount(row + 1, rows, cols)
    ELSE 0

\* the cells #layout makes for instance i: fresh elements, named by i and their place
layoutCells(i, rows, cols) == [k \in 1..layoutCount(0, rows, cols) |-> <<i, k>>]

\* tooltips = Array.from(triggers).map(...): the next trigger's instance, or null
Construct ==
    /\ ~Ready
    /\ LET i == Len(tooltips) + 1
           id == triggers[i].tooltip
       IN IF id \notin DOMAIN elAttr
          THEN /\ tooltips' = Append(tooltips, Null)
               /\ UNCHANGED <<dom, bgCells, cellOpacity>>
          ELSE LET rows == OrDefault(ParseInt(elAttr[id].rows))
                   cols == OrDefault(ParseInt(elAttr[id].cols))
                   cells == layoutCells(i, rows, cols)
               IN /\ tooltips' = Append(tooltips,
                        Some([el |-> id, bg |-> id, rows |-> rows, cols |-> cols,
                              cells |-> cells, isOpen |-> FALSE, tl |-> 0]))
                  /\ bgCells' = [bgCells EXCEPT ![id] = cells]
                  /\ dom' = [dom EXCEPT ![id].ttCols = Some(cols), ![id].ttRows = Some(rows)]
                  /\ cellOpacity' = [c \in DOMAIN cellOpacity \cup {cells[k] : k \in DOMAIN cells} |->
                                        IF c \in DOMAIN cellOpacity THEN cellOpacity[c] ELSE "css"]
    /\ out' = NoOut
    /\ UNCHANGED <<config, tls, timerVars, lastEv, scen>>

\* updatePosition(event): the element's style.left/top after the call
updatePosition(d, i, event) ==
    LET position == calculateTooltipPosition(event, win, offset[Inst(i).el])
    IN [d EXCEPT ![Inst(i).el].positioned = TRUE,
                 ![Inst(i).el].left = position.left,
                 ![Inst(i).el].top = position.top]

\* a variant that forgets to kill the running timeline
createDefaultTimelineNoKill(tlseq, cur, open) ==
    Append(tlseq, [status |-> "created", open |-> open])

\* createDefaultTimeline: the instance's timelines after the call. cur is this.tl
\* (0 when undefined), open is this.isOpen.  The new timeline is the last one.
createDefaultTimeline(tlseq, cur, open) ==
    Append(IF cur # 0 THEN [tlseq EXCEPT ![cur].status = "killed"] ELSE tlseq,
           [status |-> "created", open |-> open])

\* toggle(effectType, event) on instance i, with d the element styles it starts from.
\* effectType is None when the trigger has no data-effect attribute: charAt of
\* undefined is a TypeError, raised after isOpen is flipped.
toggle(d, i, effectType) ==
    LET t == Inst(i)
        open == ~t.isOpen
        m == IF effectType = None THEN <<>> ELSE methodName(effectType[1])
        runs == effectType # None /\ m \in EffectMethods
        \* animateTooltipContent called as an effect: this.tl.fromTo with this.tl undefined
        throws == effectType = None \/ (m = AnimateTooltipContent /\ t.tl = 0)
        gooey == runs /\ m = AnimateEffect("6")
        d1 == IF gooey THEN [d EXCEPT ![t.bg].filter = TRUE] ELSE d
        \* fromTo renders its from-values at once
        d2 == IF runs
              THEN [d1 EXCEPT ![t.el].contentOpacity = IF open THEN "0" ELSE "1"]
              ELSE d1
        cellSet == {t.cells[k] : k \in DOMAIN t.cells}
    IN /\ tooltips' = [tooltips EXCEPT ![i] =
              Some([t EXCEPT !.isOpen = open,
                             !.tl = IF runs THEN Len(tls[i]) + 1 ELSE @])]
       /\ tls' = IF runs
                 THEN [tls EXCEPT ![i] = createDefaultTimeline(tls[i], t.tl, open)]
                 ELSE tls
       /\ dom' = d2
       /\ cellOpacity' = IF runs /\ open
                         THEN [c \in DOMAIN cellOpacity |->
                                  IF c \in cellSet THEN "0" ELSE cellOpacity[c]]
                         ELSE cellOpacity
       /\ out' = [inst |-> i, toggles |-> 1,
                  warns |-> IF ~throws /\ ~IsMethod(m) THEN 1 ELSE 0,
                  threw |-> throws,
                  newTl |-> runs,
                  killed |-> IF runs /\ t.tl # 0 THEN Some(tls[i][t.tl].status) ELSE None,
                  changed |-> (d2 # d \/ (runs /\ open /\ \E c \in cellSet : cellOpacity[c] # "0"))]

\* a caller invokes toggle with the trigger's data-effect, as the listeners do
ToggleCall(i) ==
    /\ Ready
    /\ i \in Instances
    /\ Len(tls[i]) < MaxTimelines
    /\ toggle(dom, i, triggers[i].effect)
    /\ UNCHANGED <<config, bgCells, timerVars, lastEv, scen>>

\* a caller invokes updatePosition(event)
UpdatePositionCall(i, x, y) ==
    /\ Ready
    /\ i \in Instances
    /\ dom' = updatePosition(dom, i, [x |-> x, y |-> y])
    /\ lastEv' = [type |-> "update", trigger |-> i, x |-> x, y |-> y]
    /\ out' = NoOut
    /\ UNCHANGED <<config, bgCells, cellOpacity, tooltips, tls, timerVars, scen>>

-----------------------------------------------------------------------------
(* The timeline's callbacks.  The animation engine runs the callbacks of a    *)
(* timeline in the order onStart, the two glitch steps, onComplete, and runs   *)
(* none of a killed timeline.                                                  *)

\* onStart: the root element's z-index and class
onStart(d, i) ==
    IF Inst(i).isOpen
    THEN [d EXCEPT ![Inst(i).el].zIndex = Some(ZOpen), ![Inst(i).el].show = TRUE]
    ELSE [d EXCEPT ![Inst(i).el].zIndex = Some(ZClosed)]

\* a variant whose onComplete never removes the class
onCompleteKeepsClass(d, i) == d

\* onComplete: the root element's class
onComplete(d, i) ==
    IF ~Inst(i).isOpen THEN [d EXCEPT ![Inst(i).el].show = FALSE] ELSE d

Step(i, k, from, to) ==
    /\ i \in Instances
    /\ k \in DOMAIN tls[i]
    /\ tls[i][k].status = from
    /\ tls' = [tls EXCEPT ![i][k].status = to]

SetCells(i, v) ==
    LET cellSet == {Inst(i).cells[k] : k \in DOMAIN Inst(i).cells}
    IN cellOpacity' = [c \in DOMAIN cellOpacity |-> IF c \in cellSet THEN v ELSE cellOpacity[c]]

TimelineStart(i, k) ==
    /\ Step(i, k, "created", "started")
    /\ dom' = onStart(dom, i)
    /\ SetCells(i, "mid")
    /\ out' = NoOut
    /\ UNCHANGED <<config, bgCells, tooltips, timerVars, lastEv, scen>>

\* the first .add() of animateTooltipContent
GlitchTitle(i, k) ==
    /\ Step(i, k, "started", "title")
    /\ dom' = [dom EXCEPT ![Inst(i).el].titleGlitch = Inst(i).isOpen]
    /\ out' = NoOut
    /\ UNCHANGED <<config, bgCells, cellOpacity, tooltips, timerVars, lastEv, scen>>

\* the second .add() of animateTooltipContent
GlitchDesc(i, k) ==
    /\ Step(i, k, "title", "desc")
    /\ dom' = [dom EXCEPT ![Inst(i).el].descGlitch = Inst(i).isOpen]
    /\ out' = NoOut
    /\ UNCHANGED <<config, bgCells, cellOpacity, tooltips, timerVars, lastEv, scen>>

\* the tweens reach their targets (fixed when the timeline was made), then onComplete
TimelineComplete(i, k) ==
    /\ Step(i, k, "desc", "completed")
    /\ dom' = [onComplete(dom, i) EXCEPT
                  ![Inst(i).el].contentOpacity = IF tls[i][k].open THEN "1" ELSE "0"]
    /\ SetCells(i, IF tls[i][k].open THEN "1" ELSE "0")
    /\ out' = NoOut
    /\ UNCHANGED <<config, bgCells, tooltips, timerVars, lastEv, scen>>

OnStarts == \E i \in DOMAIN tls : \E k \in DOMAIN tls[i] : TimelineStart(i, k)
GlitchTitles == \E i \in DOMAIN tls : \E k \in DOMAIN tls[i] : GlitchTitle(i, k)
GlitchDescs == \E i \in DOMAIN tls : \E k \in DOMAIN tls[i] : GlitchDesc(i, k)
OnCompletes == \E i \in DOMAIN tls : \E k \in DOMAIN tls[i] : TimelineComplete(i, k)

-----------------------------------------------------------------------------
(* The listeners of a trigger and their timers *)

\* clearTimeout(id): clearing undefined (0) or a timer that has fired does nothing
clearTimeout(ts, id) == {t \in ts : t.id # id}

\* setTimeout(callback, 40) for trigger i: the closure keeps the event
setTimeout(ts, i, kind, x, y) ==
    ts \cup {[trigger |-> i, id |-> nEvents + 1, kind |-> kind, rem |-> Delay, x |-> x, y |-> y]}

\* the timers left by the first statement of the start listener
StartClears(i) == clearTimeout(timers, hideTimeout[i])
\* a variant of the end listener that does not clear the show timer
EndClearsNothing(i) == timers

\* the timers left by the first statement of the end listener
EndClears(i) == clearTimeout(timers, showTimeout[i])

Idle == [phase |-> "idle", trigger |-> 0, openAt |-> FALSE, showFired |-> FALSE,
         hideFired |-> FALSE, toggles |-> 0]
PendingOf(i) == {t \in timers : t.trigger = i}

\* the start listener (mouseenter / touchstart)
StartEvent(i, x, y) ==
    /\ Ready
    /\ i \in Instances
    /\ nEvents < MaxEvents
    /\ timers' = setTimeout(StartClears(i), i, "show", x, y)
    /\ showTimeout' = [showTimeout EXCEPT ![i] = nEvents + 1]
    /\ nEvents' = nEvents + 1
    /\ lastEv' = [type |-> "start", trigger |-> i, x |-> x, y |-> y]
    /\ scen' = IF PendingOf(i) = {}
               THEN [Idle EXCEPT !.phase = "started", !.trigger = i, !.openAt = Inst(i).isOpen]
               ELSE IF scen.trigger = i THEN Idle ELSE scen
    /\ out' = NoOut
    /\ UNCHANGED <<config, dom, bgCells, cellOpacity, tooltips, tls, hideTimeout>>

\* the move listener (mousemove / touchmove)
MoveEvent(i, x, y) ==
    /\ Ready
    /\ i \in Instances
    /\ dom' = IF Inst(i).isOpen THEN updatePosition(dom, i, [x |-> x, y |-> y]) ELSE dom
    /\ lastEv' = [type |-> "move", trigger |-> i, x |-> x, y |-> y]
    /\ scen' = IF scen.trigger = i THEN Idle ELSE scen
    /\ out' = NoOut
    /\ UNCHANGED <<config, bgCells, cellOpacity, tooltips, tls, timerVars>>

\* the end listener (mouseleave / touchend).  Its event reaches only the stagger
\* delays of effect 1, so the model keeps no coordinates of it.
EndEvent(i) ==
    /\ Ready
    /\ i \in Instances
    /\ nEvents < MaxEvents
    /\ timers' = setTimeout(EndClears(i), i, "hide", 0, 0)
    /\ hideTimeout' = [hideTimeout EXCEPT ![i] = nEvents + 1]
    /\ nEvents' = nEvents + 1
    /\ lastEv' = [type |-> "end", trigger |-> i, x |-> 0, y |-> 0]
    /\ scen' = IF scen.trigger # i THEN scen
               ELSE IF scen.phase = "started"
                       /\ \E t \in timers : t.id = showTimeout[i] /\ t.rem > 0
                    THEN [scen EXCEPT !.phase = "ended"]
                    ELSE Idle
    /\ out' = NoOut
    /\ UNCHANGED <<config, dom, bgCells, cellOpacity, tooltips, tls, showTimeout>>

\* time passes: by Tick, or up to the moment the next timer is due
Advance ==
    /\ timers # {}
    /\ \A t \in timers : t.rem > 0
    /\ LET next == CHOOSE t \in timers : \A u \in timers : t.rem <= u.rem
           d == Min(Tick, next.rem)
       IN timers' = {[t EXCEPT !.rem = @ - d] : t \in timers}
    /\ UNCHANGED <<config, dom, bgCells, cellOpacity, tooltips, tls, showTimeout,
                   hideTimeout, nEvents, out, lastEv, scen>>

\* timers of equal delay fire in the order they were set
Due(t) == t \in timers /\ t.rem = 0 /\ \A u \in timers : u.rem = 0 => t.id <= u.id

\* `if (!tooltip.isOpen)` of the show callback
ShowWanted(i) == ~Inst(i).isOpen
\* a variant of the hide callback that toggles whatever the state
HideAlways(i) == TRUE

\* `if (tooltip.isOpen)` of the hide callback
HideWanted(i) == Inst(i).isOpen

ScenFired(t) ==
    IF scen.trigger # t.trigger THEN scen
    ELSE IF scen.phase # "ended" THEN Idle
    ELSE [scen EXCEPT !.showFired = @ \/ t.kind = "show",
                      !.hideFired = @ \/ t.kind = "hide",
                      !.toggles = @ + out'.toggles]

\* the show timer's callback
ShowTimerFires(t) ==
    /\ Due(t)
    /\ t.kind = "show"
    /\ timers' = timers \ {t}
    /\ IF ShowWanted(t.trigger)
       THEN toggle(updatePosition(dom, t.trigger, [x |-> t.x, y |-> t.y]),
                   t.trigger, triggers[t.trigger].effect)
       ELSE /\ out' = [NoOut EXCEPT !.inst = t.trigger]
            /\ UNCHANGED <<dom, cellOpacity, tooltips, tls>>
    /\ scen' = ScenFired(t)
    /\ UNCHANGED <<config, bgCells, showTimeout, hideTimeout, nEvents, lastEv>>

\* the hide timer's callback
HideTimerFires(t) ==
    /\ Due(t)
    /\ t.kind = "hide"
    /\ timers' = timers \ {t}
    /\ IF HideWanted(t.trigger)
       THEN toggle(dom, t.trigger, triggers[t.trigger].effect)
       ELSE /\ out' = [NoOut EXCEPT !.inst = t.trigger]
            /\ UNCHANGED <<dom, cellOpacity, tooltips, tls>>
    /\ scen' = ScenFired(t)
    /\ UNCHANGED <<config, bgCells, showTimeout, hideTimeout, nEvents, lastEv>>

-----------------------------------------------------------------------------
(* Pages and inputs *)

AttrValues ==
    {None, Some(<<>>), Some(<<"3">>), Some(<<"0">>), Some(<<"-", "2">>),
     Some(<<"2", "x">>), Some(<<"x", "2">>), Some(<<" ", "1", "2">>)}

Glow == <<"g", "l", "o", "w">>
TooltipContent == <<"t", "o", "o", "l", "t", "i", "p", "C", "o", "n", "t", "e", "n", "t">>
DefinedEffects == {Some(EffectName(d)) : d \in EffectDigits}
EffectAttrs ==
    DefinedEffects \cup {None, Some(<<>>), Some(Glow), Some(TooltipContent),
                         Some(<<"E", "f", "f", "e", "c", "t", "2">>)}

\* the pointer positions of the events of the listeners
EventPoints == {<<1, 1>>, <<3, 5>>}
\* the pointer position of a direct updatePosition call: one that overflows the
\* small window downwards and not to the right
CallPoints == {<<1, 3>>}

\* the sizes and positions of the position check
Dims(scenario) == 0..MaxDim \cup {scenario}
Coords(scenario) == (0 - 1)..(MaxDim + 1) \cup {scenario}

InitState ==
    /\ dom = [id \in DOMAIN elAttr |-> FreshElement]
    /\ bgCells = [id \in DOMAIN elAttr |-> <<>>]
    /\ cellOpacity = <<>>
    /\ tooltips = <<>>
    /\ tls = [i \in 1..Len(triggers) |-> <<>>]
    /\ timers = {}
    /\ showTimeout = [i \in 1..Len(triggers) |-> 0]
    /\ hideTimeout = [i \in 1..Len(triggers) |-> 0]
    /\ nEvents = 0
    /\ out = NoOut
    /\ lastEv = [type |-> "none", trigger |-> 0, x |-> 0, y |-> 0]
    /\ scen = Idle

SmallWindow == [innerWidth |-> 4, innerHeight |-> 4, scrollLeft |-> 0, scrollTop |-> 0]

\* one trigger, one tooltip; every window and tooltip size
InitPos ==
    /\ triggers = <<[tooltip |-> "t1", effect |-> Some(EffectName("2"))]>>
    /\ elAttr = [id \in {"t1"} |-> [rows |-> None, cols |-> None]]
    /\ win \in {[innerWidth |-> W, innerHeight |-> H, scrollLeft |-> s, scrollTop |-> s] :
                    W \in Dims(1024), H \in Dims(768), s \in {0, 1}}
    /\ offset \in [{"t1"} -> [width : Dims(200), height : Dims(100)]]
    /\ InitState

\* one trigger, one tooltip; every effect attribute and every rows/cols attribute
InitInstance ==
    /\ triggers \in {<<[tooltip |-> "t1", effect |-> e]>> : e \in EffectAttrs}
    /\ elAttr \in [{"t1"} -> [rows : AttrValues, cols : AttrValues]]
    /\ win = SmallWindow
    /\ offset = [id \in {"t1"} |-> [width |-> 2, height |-> 2]]
    /\ InitState

\* two triggers, whose reference attributes may name the same element or none
InitPage ==
    /\ triggers \in {<<[tooltip |-> "t1", effect |-> e1], [tooltip |-> r, effect |-> e2]>> :
                        e1 \in {Some(EffectName("1")), Some(EffectName("6"))},
                        e2 \in {Some(EffectName("2"))},
                        r \in {"t1", "t2", "t3"}}
    /\ elAttr = [id \in {"t1", "t2"} |->
                    IF id = "t1" THEN [rows |-> Some(<<"1">>), cols |-> Some(<<"2">>)]
                    ELSE [rows |-> Some(<<"2">>), cols |-> Some(<<"1">>)]]
    /\ win = SmallWindow
    /\ offset = [id \in {"t1", "t2"} |-> [width |-> 2, height |-> 2]]
    /\ InitState

\* one trigger and its listeners
InitEvents ==
    /\ triggers \in {<<[tooltip |-> "t1", effect |-> e]>> :
                        e \in {Some(EffectName("1")), Some(Glow), None}}
    /\ elAttr = [id \in {"t1"} |-> [rows |-> Some(<<"1">>), cols |-> Some(<<"2">>)]]
    /\ win = SmallWindow
    /\ offset = [id \in {"t1"} |-> [width |-> 2, height |-> 2]]
    /\ InitState

Toggles == \E i \in 1..Len(triggers) : ToggleCall(i)
PositionsAnywhere ==
    \E i \in 1..Len(triggers) : \E x \in Coords(900), y \in Coords(700) :
        UpdatePositionCall(i, x, y)
PositionsAtPointer ==
    \E i \in 1..Len(triggers) : \E p \in CallPoints : UpdatePositionCall(i, p[1], p[2])
Starts == \E i \in 1..Len(triggers) : \E p \in EventPoints : StartEvent(i, p[1], p[2])
Moves == \E i \in 1..Len(triggers) : \E p \in EventPoints : MoveEvent(i, p[1], p[2])
Ends == \E i \in 1..Len(triggers) : EndEvent(i)
ShowTimers == \E t \in timers : ShowTimerFires(t)
HideTimers == \E t \in timers : HideTimerFires(t)

NextPos == Construct \/ PositionsAnywhere

NextInstance ==
    \/ Construct
    \/ Toggles
    \/ PositionsAtPointer
    \/ OnStarts
    \/ GlitchTitles
    \/ GlitchDescs
    \/ OnCompletes

NextEvents ==
    \/ Construct
    \/ Starts
    \/ Moves
    \/ Ends
    \/ Advance
    \/ ShowTimers
    \/ HideTimers
    \/ OnStarts
    \/ GlitchTitles
    \/ GlitchDescs
    \/ OnCompletes

\* positions: calculateTooltipPosition over all inputs
SpecPos == InitPos /\ [][NextPos]_vars
\* one instance: construction, toggle, updatePosition, the timeline callbacks
SpecInstance == InitInstance /\ [][NextInstance]_vars
\* two triggers: the same operations on a page where targets may be shared
SpecPage == InitPage /\ [][NextInstance]_vars
\* one trigger's listeners, timers and what they call
SpecEvents == InitEvents /\ [][NextEvents]_vars

-----------------------------------------------------------------------------
(* Properties *)

Positioned(i) == i \in Instances /\ dom[Inst(i).el].positioned
ZeroScroll == win.scrollLeft = 0 /\ win.scrollTop = 0

\* C1: with zero scroll, for every pointer position (inside the viewport or not),
\* tooltip size and viewport size, the position updatePosition applies has
\* left in [0, max(0, W-w)] and top in [0, max(0, H-h)].
C1_Claim ==
    \A i \in 1..Len(tooltips) :
        Positioned(i) /\ ZeroScroll =>
            LET e == dom[Inst(i).el]
                size == offset[Inst(i).el]
            IN /\ 0 <= e.left /\ e.left <= Max(0, win.innerWidth - size.width)
               /\ 0 <= e.top /\ e.top <= Max(0, win.innerHeight - size.height)

\* the scenario of C6: viewport 1024x768, no scroll, tooltip 200x100, pointer at (900,700)
C6_Scenario ==
    /\ win = [innerWidth |-> 1024, innerHeight |-> 768, scrollLeft |-> 0, scrollTop |-> 0]
    /\ lastEv.type = "update" /\ lastEv.x = 900 /\ lastEv.y = 700
    /\ Positioned(lastEv.trigger)
    /\ offset[Inst(lastEv.trigger).el] = [width |-> 200, height |-> 100]

\* C6 as stated: in the scenario the position is left=824, top=668.
C6_Original ==
    C6_Scenario =>
        /\ dom[Inst(lastEv.trigger).el].left = 824
        /\ dom[Inst(lastEv.trigger).el].top = 668

\* C6, amended: in the scenario the tooltip is flipped to pointer-minus-size,
\* left = 900-200 = 700 and top = 700-100 = 600.
C6_Amended ==
    C6_Scenario =>
        /\ dom[Inst(lastEv.trigger).el].left = 700
        /\ dom[Inst(lastEv.trigger).el].top = 600

C6_Witness == C6_Scenario

\* C2: every instance's cell array has exactly rows*cols elements, rows and cols
\* being the values stored on the instance, whatever the attributes were and
\* whatever was called since.
C2_Claim ==
    \A i \in Instances : Len(Inst(i).cells) = Inst(i).rows * Inst(i).cols

\* C3: a toggle with an effect attribute (present or absent) that is not the name
\* of a defined effect creates no timeline, emits exactly one diagnostic, changes
\* nothing visible and raises no error.
C3_Claim ==
    (out.toggles = 1 /\ triggers[out.inst].effect \notin DefinedEffects) =>
        /\ ~out.newTl
        /\ out.warns = 1
        /\ ~out.changed
        /\ ~out.threw

\* C7: no two instances share a root element, a background element or a cell,
\* and every instance's cells are the children of its background.
C7_Claim ==
    \A i \in Instances :
        /\ bgCells[Inst(i).bg] = Inst(i).cells
        /\ \A j \in Instances \ {i} :
              /\ Inst(i).el # Inst(j).el
              /\ Inst(i).bg # Inst(j).bg
              /\ {Inst(i).cells[k] : k \in DOMAIN Inst(i).cells}
                     \cap {Inst(j).cells[k] : k \in DOMAIN Inst(j).cells} = {}

Unkilled(i) == {k \in DOMAIN tls[i] : tls[i][k].status # "killed"}

\* C4: in every state an instance has at most one timeline that is not killed,
\* and it is the instance's current one (this.tl); and no callback of any other
\* timeline ever runs.
C4_OneTimeline ==
    /\ [](\A i \in DOMAIN tls :
             /\ Cardinality(Unkilled(i)) <= 1
             /\ \A k \in Unkilled(i) : i \in Instances /\ Inst(i).tl = k)
    /\ [][\A i \in DOMAIN tls : \A k \in DOMAIN tls[i] :
             (k \in DOMAIN tls'[i] /\ tls'[i][k].status \notin {tls[i][k].status, "killed"})
                 => (tooltips[i] # Null /\ Inst(i).tl = k)]_vars

\* a toggle arrived while the timeline was running, killed it and made a new one
C4_Witness ==
    /\ out.newTl
    /\ out.killed = Some("started")
    /\ Cardinality(Unkilled(out.inst)) = 1

\* no other trigger refers to the root element of instance i
SoleOwner(i) == \A j \in 1..Len(triggers) : j # i => triggers[j].tooltip # triggers[i].tooltip
Settled(i) ==
    /\ i \in Instances
    /\ Inst(i).tl # 0
    /\ tls[i][Inst(i).tl].status = "completed"

\* C10: for an instance that alone uses its root element, whenever its current
\* timeline has completed the class tooltip--show is on the root exactly when
\* isOpen; and the class is never removed in a step that leaves isOpen true.
C10_ShowClass ==
    /\ [](\A i \in 1..Len(tooltips) :
             (SoleOwner(i) /\ Settled(i)) => (dom[Inst(i).el].show <=> Inst(i).isOpen))
    /\ [][\A i \in Instances :
             (SoleOwner(i) /\ dom[Inst(i).el].show /\ ~dom'[Inst(i).el].show)
                 => ~tooltips'[i][1].isOpen]_vars

\* a close animation has completed and removed the class
C10_Witness ==
    \E i \in 1..Len(tooltips) :
        /\ SoleOwner(i) /\ Settled(i)
        /\ Len(tls[i]) >= 2
        /\ ~Inst(i).isOpen
        /\ ~dom[Inst(i).el].show
        /\ dom[Inst(i).el].zIndex = Some(ZClosed)

\* C5 as stated: after a start-event and an end-event less than 40ms later,
\* with no timer pending before and no other event, neither timer fires and no
\* toggle is invoked.
C5_Original ==
    scen.phase = "ended" =>
        /\ ~scen.showFired
        /\ ~scen.hideFired
        /\ scen.toggles = 0

\* C5, amended: in that scenario the show timer is cancelled and never fires;
\* the hide timer is not cancelled: it is the one pending timer until it expires,
\* and it then invokes toggle (closing the tooltip) only if the tooltip was open at
\* the start-event; if the tooltip was closed no toggle is invoked.
C5_Amended ==
    scen.phase = "ended" =>
        LET i == scen.trigger
        IN /\ ~scen.showFired
           /\ \A t \in PendingOf(i) : t.kind = "hide" /\ t.id = hideTimeout[i]
           /\ scen.hideFired <=> PendingOf(i) = {}
           /\ ~scen.hideFired => (scen.toggles = 0 /\ Inst(i).isOpen = scen.openAt)
           /\ scen.hideFired =>
                 (scen.toggles = (IF scen.openAt THEN 1 ELSE 0) /\ ~Inst(i).isOpen)

\* the hide timer has fired on a closed tooltip
C5_Witness == scen.phase = "ended" /\ scen.hideFired /\ ~scen.openAt /\ scen.toggles = 0

ShowPending(i) == {t \in PendingOf(i) : t.kind = "show"}
HidePending(i) == {t \in PendingOf(i) : t.kind = "hide"}

\* C8: in the state right after an end-event no show timer is pending for the
\* trigger, right after a start-event no hide timer is pending, and at most one
\* show timer and one hide timer are pending at any time.
C8_Claim ==
    [][\A i \in 1..Len(triggers) :
          /\ (lastEv'.type = "end" /\ lastEv'.trigger = i /\ nEvents' = nEvents + 1)
                 => ShowPending(i)' = {}
          /\ (lastEv'.type = "start" /\ lastEv'.trigger = i /\ nEvents' = nEvents + 1)
                 => HidePending(i)' = {}
          /\ Cardinality(ShowPending(i)') <= 1
          /\ Cardinality(HidePending(i)') <= 1]_vars

\* C9: for a trigger with a defined effect name, when the last event was an
\* end-event and none of the trigger's timers is pending, the tooltip is closed.
C9_ClosedAfterEnd ==
    \A i \in Instances :
        (triggers[i].effect \in DefinedEffects
           /\ lastEv.type = "end" /\ lastEv.trigger = i
           /\ PendingOf(i) = {})
            => ~Inst(i).isOpen

\* the hide timer of the last end-event has just closed an open tooltip
C9_Witness ==
    \E i \in Instances :
        /\ triggers[i].effect \in DefinedEffects
        /\ lastEv.type = "end" /\ lastEv.trigger = i
        /\ PendingOf(i) = {}
        /\ out.inst = i /\ out.toggles = 1 /\ out.newTl
        /\ ~Inst(i).isOpen

=============================================================================
